---- MODULE Spec2Model ----
(***************************************************************************)
(* Model of package pool (exec.go): an ExecPool that queues exec.Cmd       *)
(* commands, loads them into a buffered channel at Start, runs them on a   *)
(* fixed number of worker goroutines and collects the results at Wait.     *)
(*                                                                         *)
(* The coordinator (the goroutine that calls the pool's methods) and the   *)
(* workers are separate processes.  A method that neither blocks nor       *)
(* spawns is one atomic action; Start is split at the points where a       *)
(* goroutine is spawned, Wait at the point where it blocks on the          *)
(* WaitGroup, the worker at its channel operations and at cmd.Run().       *)
(***************************************************************************)
EXTENDS Integers, Sequences, FiniteSets, TLC

\* ---------------------------------------------------------------- bounds
MaxJobs == 2
MaxWorkers == 2

\* ---------------------------------------------------------------- inputs
\* The zero value of an error or of a worker's variable.
Nil == "nil"

\* A call that returns no value; a returned value v is <<v>>.  GetResults
\* returns the nil pointer as NoVal and a pointer to a result r as <<r>>.
NoVal == <<>>

\* time.Now() as formatted into a job identifier.  Every call sees the same
\* instant: the case in which the time component separates no two
\* identifiers.
Times == {"t0"}

\* e.poolId, drawn once by NewExecPool.
PoolId == "pool"

\* The settings the caller passes to AddEnv before Start, in this order.
EnvScript == <<"A=1", "B=2">>

\* The settings a caller may pass to AddEnv.
EnvSettings == {EnvScript[i] : i \in DOMAIN EnvScript}

\* The commands a caller builds: what the program does when run, and the
\* environment the caller gave the exec.Cmd (<<>> is the nil slice).
CmdInputs ==
    { [prog |-> "echo",    Env |-> <<>>],
      [prog |-> "fail",    Env |-> <<"H=0">>],
      [prog |-> "missing", Env |-> <<>>] }

ErrEnvStarted == "can not set env after jobs have started"
ErrStartAgain == "can not start again"
ErrNotStarted == "attempting to wait for jobs that have not started"

VARIABLES
    executors,      \* e.executors
    inputClosed,    \* e.inputClosed
    cmdQueue,       \* e.cmdQueue: sequence of CommandRequest
    cmdEnv,         \* e.cmdEnv (<<>> is nil)
    cmdOutput,      \* e.cmdOutput: sequence of CommandResult
    workerChanIn,   \* e.workerChanIn
    workerChanOut,  \* e.workerChanOut
    waitGroup,      \* e.waitGroup's counter
    cmdHeap,        \* the exec.Cmd objects the requests point to
    workers,        \* the worker goroutines, in spawn order
    pcCoord,        \* the method the coordinator is inside of, or "idle"
    spawnI,         \* Start's loop variable i
    ret,            \* what the coordinator's last completed call returned
    crashed,        \* Nil, or the message of the panic that ended the process
    recvLog,        \* history: the receives from workerChanIn, in order
    startQueue,     \* history: e.cmdQueue as the successful Start found it
    sendLog         \* history: the identifiers of the results sent on
                    \* workerChanOut, in the order of the sends

vars == <<executors, inputClosed, cmdQueue, cmdEnv, cmdOutput, workerChanIn,
          workerChanOut, waitGroup, cmdHeap, workers, pcCoord, spawnI, ret,
          crashed, recvLog, startQueue, sendLog>>

\* ------------------------------------------------------------- channels
\* A nil channel (the field before Start assigns it).
NilChan == [made |-> FALSE, cap |-> 0, buf |-> <<>>, closed |-> FALSE]

\* make(chan T, n)
MakeChan(n) == [made |-> TRUE, cap |-> n, buf |-> <<>>, closed |-> FALSE]

\* ---------------------------------------------------------- identifiers
\* fmt.Sprintf("%s-%012d-%s", time, seq, poolId): the sequence number is
\* zero-padded to a fixed width and the pool id has a fixed length, so the
\* string determines its three parts.
JobId(t, seq, pool) == <<t, seq, pool>>

\* --------------------------------------------------------------- Init
\* NewExecPool(executors)
Init ==
    /\ executors \in 0..MaxWorkers
    /\ inputClosed = FALSE
    /\ cmdQueue = <<>>
    /\ cmdEnv = <<>>
    /\ cmdOutput = <<>>
    /\ workerChanIn = NilChan
    /\ workerChanOut = NilChan
    /\ waitGroup = 0
    /\ cmdHeap = <<>>
    /\ workers = <<>>
    /\ pcCoord = "idle"
    /\ spawnI = 0
    /\ ret = [op |-> "NewExecPool", err |-> Nil, val |-> NoVal]
    /\ crashed = Nil
    /\ recvLog = <<>>
    /\ startQueue = <<>>
    /\ sendLog = <<>>

\* The coordinator can call a method: it is inside none and the process lives.
Callable == pcCoord = "idle" /\ crashed = Nil

\* ---------------------------------------------------------- AddCommand
\* Mutant of NewRequest: the identifier is built from the time and the pool
\* id alone.
NewRequestNoSeq(t, h) ==
    [jobSequence |-> Len(cmdQueue),
     jobId       |-> JobId(t, 0, PoolId),
     command     |-> h]

\* The request AddCommand builds for the command at heap address h.
NewRequest(t, h) ==
    [jobSequence |-> Len(cmdQueue),
     jobId       |-> JobId(t, Len(cmdQueue), PoolId),
     command     |-> h]

\* e.AddCommand(cmd), cmd a command the caller has just built.
AddCommand(c, t) ==
    /\ Callable
    /\ Len(cmdHeap) < MaxJobs
    /\ LET h == Len(cmdHeap) + 1
           req == NewRequest(t, h)
       IN /\ cmdHeap' = Append(cmdHeap, [prog |-> c.prog, Env |-> c.Env, runs |-> 0])
          /\ cmdQueue' = Append(cmdQueue, req)
          /\ ret' = [op |-> "AddCommand", err |-> Nil, val |-> <<req.jobId>>]
    /\ UNCHANGED <<executors, inputClosed, cmdEnv, cmdOutput, workerChanIn,
                   workerChanOut, waitGroup, workers, pcCoord, spawnI, crashed,
                   recvLog, startQueue,
                   sendLog>>

\* -------------------------------------------------------------- AddEnv
\* Mutant of EnvRefused: AddEnv does not test the flag.
EnvRefusedNever == FALSE

\* AddEnv's test of e.inputClosed.
EnvRefused == inputClosed

\* e.AddEnv(envSetting)
AddEnv(s) ==
    /\ Callable
    /\ IF EnvRefused
       THEN /\ ret' = [op |-> "AddEnv", err |-> ErrEnvStarted, val |-> NoVal]
            /\ UNCHANGED cmdEnv
       ELSE /\ cmdEnv' = Append(cmdEnv, s)
            /\ ret' = [op |-> "AddEnv", err |-> Nil, val |-> NoVal]
    /\ UNCHANGED <<executors, inputClosed, cmdQueue, cmdOutput, workerChanIn,
                   workerChanOut, waitGroup, cmdHeap, workers, pcCoord, spawnI,
                   crashed, recvLog, startQueue,
                   sendLog>>

\* --------------------------------------------------------------- Start
\* Mutant of ChanCap: the channels hold one request fewer than the queue.
ChanCapShort == IF cmdQueue = <<>> THEN Len(cmdQueue) ELSE Len(cmdQueue) - 1

\* len(e.cmdQueue), the capacity Start gives both channels.
ChanCap == Len(cmdQueue)

\* Mutant of ApplyEnv: the overrides are appended to the command's own
\* environment.
ApplyEnvAppend(heap) ==
    [h \in DOMAIN heap |->
        IF cmdEnv # <<>> /\ \E i \in DOMAIN cmdQueue : cmdQueue[i].command = h
        THEN [heap[h] EXCEPT !.Env = @ \o cmdEnv]
        ELSE heap[h]]

\* The heap after Start's loop has visited every request: a non-nil e.cmdEnv
\* replaces the Env of the request's command.
ApplyEnv(heap) ==
    [h \in DOMAIN heap |->
        IF cmdEnv # <<>> /\ \E i \in DOMAIN cmdQueue : cmdQueue[i].command = h
        THEN [heap[h] EXCEPT !.Env = cmdEnv]
        ELSE heap[h]]

\* The copy of a queued request that Start sends.
JobOf(jobRequest) ==
    [jobSequence |-> jobRequest.jobSequence,
     jobId       |-> jobRequest.jobId,
     command     |-> jobRequest.command]

\* How many of Start's sends complete before one blocks on a full buffer
\* (no receiver exists while Start loads).
Loadable(ch) == IF Len(cmdQueue) <= ch.cap THEN Len(cmdQueue) ELSE ch.cap

\* The channel after Start's loop has sent what it can.
LoadChan(ch) ==
    [ch EXCEPT !.buf = [i \in 1..Loadable(ch) |-> JobOf(cmdQueue[i])]]

\* close(ch) on an open channel.
CloseChan(ch) == [ch EXCEPT !.closed = TRUE]

\* Mutant of StartRefused: Start does not test the flag.
StartRefusedNever == FALSE

\* Start's test of e.inputClosed.
StartRefused == inputClosed

\* e.Start() up to the loop that adds the workers.  A send that finds the
\* buffer full blocks Start for good.
Start ==
    /\ Callable
    /\ IF StartRefused
       THEN /\ ret' = [op |-> "Start", err |-> ErrStartAgain, val |-> NoVal]
            /\ UNCHANGED <<inputClosed, workerChanIn, workerChanOut, cmdHeap,
                           pcCoord, spawnI, startQueue>>
       ELSE /\ inputClosed' = TRUE
            /\ workerChanOut' = MakeChan(ChanCap)
            /\ cmdHeap' = ApplyEnv(cmdHeap)
            /\ LET loaded == LoadChan(MakeChan(ChanCap))
               IN IF Len(loaded.buf) < Len(cmdQueue)
                  THEN /\ workerChanIn' = loaded
                       /\ pcCoord' = "StartBlocked"
                  ELSE /\ workerChanIn' = CloseChan(loaded)
                       /\ pcCoord' = "Start"
            /\ spawnI' = 0
            /\ startQueue' = cmdQueue
            /\ UNCHANGED ret
    /\ UNCHANGED <<executors, cmdQueue, cmdEnv, cmdOutput, waitGroup, workers,
                   crashed, recvLog, sendLog>>

\* Mutant of SpawnMore: the loop runs once more (i <= e.executors).
SpawnMoreOffByOne == spawnI <= executors

\* Start's loop condition i < e.executors.
SpawnMore == spawnI < executors

\* A goroutine that has just been started with go e.worker(...).
NewWorker == [pc |-> "recv", job |-> Nil, output |-> Nil]

\* One iteration of Start's second loop: e.waitGroup.Add(1); go e.worker(...)
StartSpawn ==
    /\ pcCoord = "Start" /\ crashed = Nil
    /\ SpawnMore
    /\ waitGroup' = waitGroup + 1
    /\ workers' = Append(workers, NewWorker)
    /\ spawnI' = spawnI + 1
    /\ UNCHANGED <<executors, inputClosed, cmdQueue, cmdEnv, cmdOutput,
                   workerChanIn, workerChanOut, cmdHeap, pcCoord, ret, crashed,
                   recvLog, startQueue,
                   sendLog>>

\* The loop ends and Start returns nil.
StartReturn ==
    /\ pcCoord = "Start" /\ crashed = Nil
    /\ ~SpawnMore
    /\ pcCoord' = "idle"
    /\ ret' = [op |-> "Start", err |-> Nil, val |-> NoVal]
    /\ UNCHANGED <<executors, inputClosed, cmdQueue, cmdEnv, cmdOutput,
                   workerChanIn, workerChanOut, waitGroup, cmdHeap, workers,
                   spawnI, crashed, recvLog, startQueue,
                   sendLog>>

\* -------------------------------------------------------------- worker
\* What the program of a command does when the command at heap address h is
\* run: the error Run returns, what it writes to the two buffers, and
\* ProcessState.ExitCode(), which is -1 for a process that never started.
\* Every command writes a text of its own.
Behaviour(prog, h) ==
    IF prog = "echo"
    THEN [RunError |-> Nil, StdOut |-> <<"out", h>>, StdErr |-> <<>>,
          ReturnCode |-> 0]
    ELSE IF prog = "fail"
    THEN [RunError |-> "exit status 3", StdOut |-> <<>>,
          StdErr |-> <<"boom", h>>, ReturnCode |-> 3]
    ELSE [RunError |-> "executable file not found", StdOut |-> <<>>,
          StdErr |-> <<>>, ReturnCode |-> -1]

\* What job.command.Run() and the reads after it yield for the command at
\* heap address h.  exec.Cmd refuses a second Run and writes nothing; the
\* exit code is then that of the first run.
RunCommand(heap, h) ==
    IF heap[h].runs > 0
    THEN [RunError |-> "exec: already started", StdOut |-> <<>>, StdErr |-> <<>>,
          ReturnCode |-> Behaviour(heap[h].prog, h).ReturnCode]
    ELSE Behaviour(heap[h].prog, h)

\* Mutant of MakeResult: the exit code is not read and keeps its zero value.
MakeResultNoCode(job, run) ==
    [JobSequence |-> 0,
     JobId       |-> job.jobId,
     RunError    |-> run.RunError,
     StdOut      |-> run.StdOut,
     StdErr      |-> run.StdErr,
     ReturnCode  |-> 0]

\* The CommandResult literal the worker builds; JobSequence is not among the
\* fields it sets and keeps its zero value.
MakeResult(job, run) ==
    [JobSequence |-> 0,
     JobId       |-> job.jobId,
     RunError    |-> run.RunError,
     StdOut      |-> run.StdOut,
     StdErr      |-> run.StdErr,
     ReturnCode  |-> run.ReturnCode]

\* The range loop can take a value: the channel exists and holds one.
CanRecv(ch) == ch.made /\ ch.buf # <<>>

\* The range loop ends: the channel is closed and drained.
RecvDone(ch) == ch.made /\ ch.closed /\ ch.buf = <<>>

\* Mutant of AfterRecv: the receive leaves the value in the buffer, so the
\* next receive delivers it again.
AfterRecvKeep(ch) == ch

\* The channel after a receive has taken the value at its head.
AfterRecv(ch) == [ch EXCEPT !.buf = Tail(@)]

\* for job := range e.workerChanIn: worker w receives the next request.
WorkerRecv(w) ==
    /\ crashed = Nil
    /\ workers[w].pc = "recv"
    /\ CanRecv(workerChanIn)
    /\ LET job == Head(workerChanIn.buf)
       IN /\ workers' = [workers EXCEPT ![w] = [pc |-> "run", job |-> job,
                                                 output |-> Nil]]
          /\ recvLog' = Append(recvLog, [worker |-> w, jobId |-> job.jobId])
    /\ workerChanIn' = AfterRecv(workerChanIn)
    /\ UNCHANGED <<executors, inputClosed, cmdQueue, cmdEnv, cmdOutput,
                   workerChanOut, waitGroup, cmdHeap, pcCoord, spawnI, ret,
                   crashed, startQueue,
                   sendLog>>

\* Mutant of WorkerAfterRun: a run error makes the worker skip the send and
\* go on with the next job.
WorkerAfterRunSkip(job, run) ==
    IF run.RunError # Nil
    THEN [pc |-> "recv", job |-> Nil, output |-> Nil]
    ELSE [pc |-> "send", job |-> job, output |-> MakeResult(job, run)]

\* The worker after Run has returned: whatever the run error, it builds the
\* result and goes on to send it.
WorkerAfterRun(job, run) ==
    [pc |-> "send", job |-> job, output |-> MakeResult(job, run)]

\* The command of worker w's job runs to completion and the worker builds
\* the result.
WorkerRun(w) ==
    /\ crashed = Nil
    /\ workers[w].pc = "run"
    /\ LET job == workers[w].job
           h == job.command
       IN /\ workers' = [workers EXCEPT ![w] =
                 WorkerAfterRun(job, RunCommand(cmdHeap, h))]
          /\ cmdHeap' = [cmdHeap EXCEPT ![h].runs = @ + 1]
    /\ UNCHANGED <<executors, inputClosed, cmdQueue, cmdEnv, cmdOutput,
                   workerChanIn, workerChanOut, waitGroup, pcCoord, spawnI, ret,
                   crashed, recvLog, startQueue,
                   sendLog>>

\* e.workerChanOut <- output: blocks while the buffer is full, panics on a
\* closed channel.
WorkerSend(w) ==
    /\ crashed = Nil
    /\ workers[w].pc = "send"
    /\ workerChanOut.made
    /\ IF workerChanOut.closed
       THEN /\ crashed' = "send on closed channel"
            /\ UNCHANGED <<workerChanOut, workers, sendLog>>
       ELSE /\ Len(workerChanOut.buf) < workerChanOut.cap
            /\ workerChanOut' = [workerChanOut EXCEPT
                                    !.buf = Append(@, workers[w].output)]
            /\ workers' = [workers EXCEPT ![w] = [pc |-> "recv", job |-> Nil,
                                                   output |-> Nil]]
            /\ sendLog' = Append(sendLog, workers[w].output.JobId)
            /\ UNCHANGED crashed
    /\ UNCHANGED <<executors, inputClosed, cmdQueue, cmdEnv, cmdOutput,
                   workerChanIn, waitGroup, cmdHeap, pcCoord, spawnI, ret,
                   recvLog, startQueue>>

\* The range loop of worker w ends and it calls wg.Done().
WorkerDone(w) ==
    /\ crashed = Nil
    /\ workers[w].pc = "recv"
    /\ RecvDone(workerChanIn)
    /\ workers' = [workers EXCEPT ![w].pc = "exited"]
    /\ waitGroup' = waitGroup - 1
    /\ UNCHANGED <<executors, inputClosed, cmdQueue, cmdEnv, cmdOutput,
                   workerChanIn, workerChanOut, cmdHeap, pcCoord, spawnI, ret,
                   crashed, recvLog, startQueue,
                   sendLog>>

\* ---------------------------------------------------------------- Wait
\* Mutant of WaitRefused: Wait does not test the flag.
WaitRefusedNever == FALSE

\* Wait's test of e.inputClosed.
WaitRefused == ~inputClosed

\* e.Wait() up to e.waitGroup.Wait().
Wait ==
    /\ Callable
    /\ IF WaitRefused
       THEN /\ ret' = [op |-> "Wait", err |-> ErrNotStarted, val |-> NoVal]
            /\ UNCHANGED pcCoord
       ELSE /\ pcCoord' = "Wait"
            /\ UNCHANGED ret
    /\ UNCHANGED <<executors, inputClosed, cmdQueue, cmdEnv, cmdOutput,
                   workerChanIn, workerChanOut, waitGroup, cmdHeap, workers,
                   spawnI, crashed, recvLog, startQueue,
                   sendLog>>

\* Mutant of BarrierOpen: Wait does not wait for the workers.
BarrierOpenAlways == TRUE

\* e.waitGroup.Wait() returns: the counter is zero.
BarrierOpen == waitGroup = 0

\* Mutant of Collected: every received result is put at the front of the
\* store.
CollectedNewestFirst(out, ch) ==
    [i \in 1..Len(ch.buf) |-> ch.buf[Len(ch.buf) + 1 - i]] \o out

\* Mutant of Collected: a single receive in place of the range loop.
CollectedFirst(out, ch) ==
    IF ch.buf = <<>> THEN out ELSE Append(out, Head(ch.buf))

\* e.cmdOutput after Wait's range loop over the closed channel has appended
\* every buffered result.
Collected(out, ch) == out \o ch.buf

\* The rest of Wait: close(e.workerChanOut), which panics on a closed or nil
\* channel, then the loop that appends every buffered result to e.cmdOutput.
WaitCollect ==
    /\ pcCoord = "Wait" /\ crashed = Nil
    /\ BarrierOpen
    /\ IF ~workerChanOut.made \/ workerChanOut.closed
       THEN /\ crashed' = IF workerChanOut.made THEN "close of closed channel"
                          ELSE "close of nil channel"
            /\ UNCHANGED <<workerChanOut, cmdOutput, pcCoord, ret>>
       ELSE /\ workerChanOut' = [workerChanOut EXCEPT !.closed = TRUE,
                                                      !.buf = <<>>]
            /\ cmdOutput' = Collected(cmdOutput, workerChanOut)
            /\ pcCoord' = "idle"
            /\ ret' = [op |-> "Wait", err |-> Nil, val |-> NoVal]
            /\ UNCHANGED crashed
    /\ UNCHANGED <<executors, inputClosed, cmdQueue, cmdEnv, workerChanIn,
                   waitGroup, cmdHeap, workers, spawnI, recvLog, startQueue,
                   sendLog>>

\* ---------------------------------------------------------- GetResults
\* The loop of GetResults over a result list: the first result with the
\* identifier, or the nil pointer.
RECURSIVE ScanResults(_, _)
ScanResults(out, jobId) ==
    IF out = <<>> THEN NoVal
    ELSE IF Head(out).JobId = jobId THEN <<Head(out)>>
    ELSE ScanResults(Tail(out), jobId)

\* Mutant of GetResults: the scan does not compare identifiers and returns
\* the first result of the store.
GetResultsFirst(jobId) ==
    IF cmdOutput = <<>> THEN NoVal ELSE <<cmdOutput[1]>>

\* e.GetResults(jobId)
GetResults(jobId) == ScanResults(cmdOutput, jobId)

\* The identifiers AddCommand has returned.
IssuedIds == {cmdQueue[i].jobId : i \in DOMAIN cmdQueue}

\* An identifier this pool never issues (it names another pool).
UnknownId == JobId("t0", 0, "other")

\* The coordinator calls e.GetResults(jobId).
GetResultsCall(jobId) ==
    /\ Callable
    /\ ret' = [op |-> "GetResults", err |-> Nil, val |-> GetResults(jobId)]
    /\ UNCHANGED <<executors, inputClosed, cmdQueue, cmdEnv, cmdOutput,
                   workerChanIn, workerChanOut, waitGroup, cmdHeap, workers,
                   pcCoord, spawnI, crashed, recvLog, startQueue,
                   sendLog>>

\* ---------------------------------------------------------------- Next
\* What the caller's next AddEnv call may pass: the next setting of its
\* script before Start, any setting once the pool is started.
NextSettings ==
    IF inputClosed THEN EnvSettings
    ELSE IF Len(cmdEnv) < Len(EnvScript) THEN {EnvScript[Len(cmdEnv) + 1]}
    ELSE {}

Next ==
    \/ \E c \in CmdInputs, t \in Times : AddCommand(c, t)
    \/ \E s \in NextSettings : AddEnv(s)
    \/ Start
    \/ StartSpawn
    \/ StartReturn
    \/ Wait
    \/ WaitCollect
    \/ \E jobId \in IssuedIds \cup {UnknownId} : GetResultsCall(jobId)
    \/ \E w \in DOMAIN workers : WorkerRecv(w)
    \/ \E w \in DOMAIN workers : WorkerRun(w)
    \/ \E w \in DOMAIN workers : WorkerSend(w)
    \/ \E w \in DOMAIN workers : WorkerDone(w)

Spec == Init /\ [][Next]_vars

\* ------------------------------------------------------ fair scheduling
\* NewExecPool(executors) with up to one worker more than in Init.
InitLive ==
    /\ executors \in 0..(MaxWorkers + 1)
    /\ inputClosed = FALSE
    /\ cmdQueue = <<>>
    /\ cmdEnv = <<>>
    /\ cmdOutput = <<>>
    /\ workerChanIn = NilChan
    /\ workerChanOut = NilChan
    /\ waitGroup = 0
    /\ cmdHeap = <<>>
    /\ workers = <<>>
    /\ pcCoord = "idle"
    /\ spawnI = 0
    /\ ret = [op |-> "NewExecPool", err |-> Nil, val |-> NoVal]
    /\ crashed = Nil
    /\ recvLog = <<>>
    /\ startQueue = <<>>
    /\ sendLog = <<>>

\* The steps that decide termination: the calls that only report (AddEnv,
\* GetResults) are left out.
NextLive ==
    \/ \E c \in CmdInputs, t \in Times : AddCommand(c, t)
    \/ Start
    \/ StartSpawn
    \/ StartReturn
    \/ Wait
    \/ WaitCollect
    \/ \E w \in DOMAIN workers : WorkerRecv(w)
    \/ \E w \in DOMAIN workers : WorkerRun(w)
    \/ \E w \in DOMAIN workers : WorkerSend(w)
    \/ \E w \in DOMAIN workers : WorkerDone(w)

\* The Go scheduler runs every goroutine that can take a step, and every
\* command terminates: a call in progress and every worker go on as long
\* as they are not blocked.  Whether the caller makes another call is up
\* to the caller.
Fairness ==
    /\ WF_vars(StartSpawn)
    /\ WF_vars(StartReturn)
    /\ WF_vars(WaitCollect)
    /\ \A w \in 1..(MaxWorkers + 1) :
           /\ WF_vars(w \in DOMAIN workers /\ WorkerRecv(w))
           /\ WF_vars(w \in DOMAIN workers /\ WorkerRun(w))
           /\ WF_vars(w \in DOMAIN workers /\ WorkerSend(w))
           /\ WF_vars(w \in DOMAIN workers /\ WorkerDone(w))

SpecLive == InitLive /\ [][NextLive]_vars /\ Fairness

\* ============================================================== claims
\* Wait has closed e.workerChanOut and collected: a successful Wait returned.
WaitDone == workerChanOut.made /\ workerChanOut.closed

\* The number of jobs enqueued before the successful Start.
NumStarted == Len(startQueue)

\* The identifiers of the jobs enqueued before the successful Start.
StartedIds == {startQueue[k].jobId : k \in DOMAIN startQueue}

\* C1: for N jobs enqueued before Start and W workers with 1 <= W <= N, once
\* Start and Wait have returned the result store holds exactly N results,
\* their job identifiers are pairwise distinct, and each is the identifier
\* of an enqueued job.
C1_ExactlyNResults ==
    (WaitDone /\ 1 <= executors /\ executors <= NumStarted) =>
        /\ Len(cmdOutput) = NumStarted
        /\ \A i, j \in DOMAIN cmdOutput :
               i # j => cmdOutput[i].JobId # cmdOutput[j].JobId
        /\ \A i \in DOMAIN cmdOutput : cmdOutput[i].JobId \in StartedIds

\* Start and Wait have returned on a pool of two jobs and two workers, and
\* the store holds two results.
C1_Witness ==
    /\ WaitDone /\ pcCoord = "idle"
    /\ executors = 2 /\ NumStarted = 2
    /\ Len(cmdOutput) = 2

\* C2: every request enqueued before Start is received from the Dispatch
\* Channel by exactly one worker and run exactly once: no request is
\* received twice, no command is run twice, only enqueued requests are
\* received, and once Wait has returned on a pool with at least one worker
\* every request has been received and run (also with more workers than
\* jobs).
C2_ExactlyOnce ==
    /\ \A i, j \in DOMAIN recvLog :
           i # j => recvLog[i].jobId # recvLog[j].jobId
    /\ \A i \in DOMAIN recvLog : recvLog[i].jobId \in StartedIds
    /\ \A h \in DOMAIN cmdHeap : cmdHeap[h].runs <= 1
    /\ (WaitDone /\ executors >= 1) =>
           \A k \in DOMAIN startQueue :
               /\ \E i \in DOMAIN recvLog : recvLog[i].jobId = startQueue[k].jobId
               /\ cmdHeap[startQueue[k].command].runs = 1

\* Wait has returned on a pool with more workers than jobs, and the one job
\* has been received and run.
C2_Witness ==
    /\ WaitDone
    /\ NumStarted = 1 /\ executors = 2
    /\ Len(recvLog) = 1
    /\ cmdHeap[startQueue[1].command].runs = 1

\* The workers whose command is running.
Running == {w \in DOMAIN workers : workers[w].pc = "run"}

\* Start has been called with success and has returned.
StartReturned == inputClosed /\ pcCoord \notin {"Start", "StartBlocked"}

\* C3: Start spawns exactly the configured number W of workers: at most W
\* commands run at the same time, no worker exists before Start, and from
\* Start's return on there are exactly W workers.
C3_FixedPool ==
    /\ Len(workers) <= executors
    /\ Cardinality(Running) <= executors
    /\ ~inputClosed => workers = <<>>
    /\ StartReturned => Len(workers) = executors

\* Start has returned and both workers of a two-worker pool run a command.
C3_Witness ==
    /\ StartReturned
    /\ executors = 2
    /\ Cardinality(Running) = 2

\* What the command of the k-th job enqueued before Start produces.
Produced(k) ==
    Behaviour(cmdHeap[startQueue[k].command].prog, startQueue[k].command)

\* C4: after Start and Wait on a pool with at least one worker, for every
\* job enqueued before Start GetResults(jobId) returns a result with that
\* identifier whose standard output, standard error and exit code are the
\* ones the job's own command produced.
C4_OwnResult ==
    (WaitDone /\ executors >= 1) =>
        \A k \in DOMAIN startQueue :
            LET r == GetResults(startQueue[k].jobId) IN
            /\ r # NoVal
            /\ r[1].JobId = startQueue[k].jobId
            /\ r[1].StdOut = Produced(k).StdOut
            /\ r[1].StdErr = Produced(k).StdErr
            /\ r[1].ReturnCode = Produced(k).ReturnCode

\* Wait has returned on a two-worker pool whose two jobs, one printing and
\* one exiting with code 3, were run by different workers.
C4_Witness ==
    /\ WaitDone /\ executors = 2 /\ NumStarted = 2
    /\ cmdHeap[startQueue[1].command].prog = "echo"
    /\ cmdHeap[startQueue[2].command].prog = "fail"
    /\ Len(recvLog) = 2 /\ recvLog[1].worker # recvLog[2].worker
    /\ GetResults(startQueue[2].jobId) # NoVal
    /\ GetResults(startQueue[2].jobId)[1].ReturnCode = 3

\* The errors the pool's methods return for a call in the wrong state.
StateErrors == {ErrEnvStarted, ErrStartAgain, ErrNotStarted}

\* C5: a job whose command fails to launch or exits non-zero aborts neither
\* the pool nor another job: a worker leaves its loop only when the Dispatch
\* Channel is closed and empty, no worker's send panics, the pool's methods
\* return no error but the state-violation errors (Wait on a started pool
\* returns nil, Start returns nil unless the pool was started before), and
\* once Wait has returned every job has its own result, a failing job's
\* carrying its own run error and exit code.
C5_FailureContained ==
    /\ \A w \in DOMAIN workers :
           workers[w].pc = "exited" => RecvDone(workerChanIn)
    /\ crashed # "send on closed channel"
    /\ ret.err \in StateErrors \cup {Nil}
    /\ (ret.op = "Wait" /\ StartReturned) => ret.err = Nil
    /\ ret.op = "Start" => ret.err \in {Nil, ErrStartAgain}
    /\ (WaitDone /\ executors >= 1) =>
           \A k \in DOMAIN startQueue :
               LET r == GetResults(startQueue[k].jobId) IN
               /\ r # NoVal
               /\ r[1].RunError = Produced(k).RunError
               /\ r[1].ReturnCode = Produced(k).ReturnCode

\* Wait has returned nil after one worker ran a command that could not be
\* launched and then took and ran the second job, which succeeded.
C5_Witness ==
    /\ WaitDone /\ ret = [op |-> "Wait", err |-> Nil, val |-> NoVal]
    /\ NumStarted = 2 /\ Len(recvLog) = 2
    /\ recvLog[1].worker = recvLog[2].worker
    /\ cmdHeap[startQueue[1].command].prog = "missing"
    /\ GetResults(startQueue[1].jobId) # NoVal
    /\ GetResults(startQueue[1].jobId)[1].RunError # Nil
    /\ GetResults(startQueue[2].jobId) # NoVal
    /\ GetResults(startQueue[2].jobId)[1].RunError = Nil

\* C6: a call to Start on a started pool returns the "can not start again"
\* error and changes nothing else: the flag, both channels, the job queue,
\* the workers, the commands and the result store stay as they are, and no
\* request is received or run because of it.
C6_SecondStartRefused ==
    [][(Start /\ inputClosed) =>
          /\ ret' = [op |-> "Start", err |-> ErrStartAgain, val |-> NoVal]
          /\ UNCHANGED <<executors, inputClosed, cmdQueue, cmdEnv, cmdOutput,
                         workerChanIn, workerChanOut, waitGroup, cmdHeap,
                         workers, pcCoord, spawnI, crashed, recvLog,
                         startQueue,
                         sendLog>>]_vars

\* A second Start has been refused while a worker runs a command.
C6_Witness ==
    /\ ret = [op |-> "Start", err |-> ErrStartAgain, val |-> NoVal]
    /\ Running # {}
    /\ workerChanIn.buf # <<>>

\* C7: a call to Wait on a pool that has not been started returns the "not
\* started" error at once (the coordinator does not block) and changes
\* nothing else: no channel is made or closed, the result store stays
\* empty, and the pool is as ready for Start as before.
C7_EarlyWaitRefused ==
    [][(Wait /\ ~inputClosed) =>
          /\ ret' = [op |-> "Wait", err |-> ErrNotStarted, val |-> NoVal]
          /\ pcCoord' = "idle"
          /\ UNCHANGED <<executors, inputClosed, cmdQueue, cmdEnv, cmdOutput,
                         workerChanIn, workerChanOut, waitGroup, cmdHeap,
                         workers, spawnI, crashed, recvLog, startQueue,
                         sendLog>>]_vars

\* Wait has been refused on a pool that holds a job and is not started.
C7_Witness ==
    /\ ret = [op |-> "Wait", err |-> ErrNotStarted, val |-> NoVal]
    /\ ~inputClosed /\ pcCoord = "idle"
    /\ cmdQueue # <<>>
    /\ cmdOutput = <<>> /\ ~workerChanOut.made

\* C8: a call to AddEnv after Start returns the error and leaves the
\* override list and the environment of every command unchanged; a call
\* before Start returns nil and appends the setting to the list.
C8_AddEnvGated ==
    [][\A s \in EnvSettings :
          AddEnv(s) =>
             IF inputClosed
             THEN /\ ret' = [op |-> "AddEnv", err |-> ErrEnvStarted,
                             val |-> NoVal]
                  /\ UNCHANGED <<cmdEnv, cmdHeap, workerChanIn, workers>>
             ELSE /\ ret' = [op |-> "AddEnv", err |-> Nil, val |-> NoVal]
                  /\ cmdEnv' = Append(cmdEnv, s)]_vars

\* AddEnv has been refused after two settings were added before Start, while
\* a worker runs a command that carries the two settings.
C8_Witness ==
    /\ ret = [op |-> "AddEnv", err |-> ErrEnvStarted, val |-> NoVal]
    /\ cmdEnv = EnvScript
    /\ \E w \in Running : cmdHeap[workers[w].job.command].Env = EnvScript

\* C9 (as claimed): once the pool is started the job queue is the sequence
\* it was when Start was called.  AddCommand does not test the flag, so a
\* call after Start appends to the queue.
C9_QueueFrozen ==
    inputClosed => cmdQueue = startQueue

\* C10: the result store is filled only after every worker has completed:
\* whenever it is non-empty all configured workers have been spawned, all
\* have called Done, and no command is running; while a worker has not
\* exited the store is empty.
C10_StoreAfterBarrier ==
    /\ cmdOutput # <<>> =>
           /\ waitGroup = 0
           /\ Len(workers) = executors
           /\ \A w \in DOMAIN workers : workers[w].pc = "exited"
    /\ (\E w \in DOMAIN workers : workers[w].pc # "exited") => cmdOutput = <<>>

\* The store holds the two results of a two-worker pool.
C10_Witness ==
    /\ Len(cmdOutput) = 2
    /\ executors = 2
    /\ \A w \in DOMAIN workers : workers[w].pc = "exited"

\* C11 (as claimed): whatever Wait calls follow Start, e.workerChanOut is
\* closed once and the process never panics on closing the closed channel.
\* Wait has no record of having collected: a Wait after a completed Wait
\* passes the barrier and closes the channel again.
C11_CloseOnce ==
    crashed # "close of closed channel"

\* The results in the store that carry the identifier.
Stored(jobId) == {i \in DOMAIN cmdOutput : cmdOutput[i].JobId = jobId}

\* C12: GetResults returns absent whenever the store holds no result with
\* the identifier: for every identifier, issued or not, as long as Wait has
\* not completed (before Start, while workers run, when they have
\* finished), and for a never-issued identifier in every state; and what a
\* GetResults call returned before Wait completed is absent.
C12_AbsentWhenNotStored ==
    /\ \A jobId \in IssuedIds \cup {UnknownId} :
           /\ Stored(jobId) = {} => GetResults(jobId) = NoVal
           /\ ~WaitDone => GetResults(jobId) = NoVal
    /\ GetResults(UnknownId) = NoVal
    /\ (ret.op = "GetResults" /\ ~WaitDone) => ret.val = NoVal

\* A lookup has returned absent after both workers finished their jobs and
\* before Wait was called: the results are still in the channel.
C12_Witness ==
    /\ ret = [op |-> "GetResults", err |-> Nil, val |-> NoVal]
    /\ ~WaitDone /\ pcCoord = "idle"
    /\ Len(workerChanOut.buf) = 2
    /\ \A w \in DOMAIN workers : workers[w].pc = "exited"

\* Every configured worker has been spawned, has left its loop and has
\* called Done.
AllExited ==
    /\ Len(workers) = executors
    /\ \A w \in DOMAIN workers : workers[w].pc = "exited"
    /\ waitGroup = 0

\* C13 (as claimed): under fair scheduling, once Start has begun every
\* worker is spawned, leaves its loop and signals the barrier; a Wait
\* called after Start returns; and a Wait that has returned on a pool
\* started with no job leaves the store empty.  The second part fails for a
\* Wait called after a completed Wait, which panics instead of returning.
C13_Terminates ==
    /\ (inputClosed ~> AllExited)
    /\ ((pcCoord = "Wait") ~> (pcCoord = "idle"))
    /\ [](WaitDone /\ NumStarted = 0 => cmdOutput = <<>>)

\* What holds of the code: the workers all exit, and a Wait called before
\* the results are collected returns with them collected.
C13_FirstWaitReturns ==
    /\ (inputClosed ~> AllExited)
    /\ ((pcCoord = "Wait" /\ ~WaitDone) ~> (pcCoord = "idle" /\ WaitDone))
    /\ [](WaitDone /\ NumStarted = 0 => cmdOutput = <<>>)

\* Wait has returned on a pool of three workers and no job.
C13_EmptyPoolWaited ==
    /\ WaitDone /\ pcCoord = "idle"
    /\ executors = 3 /\ NumStarted = 0
    /\ AllExited /\ cmdOutput = <<>>

\* C14: no two AddCommand calls on a pool return the same identifier: the
\* identifiers in the queue are pairwise distinct, each embeds the request's
\* sequence number, which is its 0-based position in the queue, and the
\* identifier a call returned is the one it queued.
C14_UniqueIds ==
    /\ \A i, j \in DOMAIN cmdQueue :
           i # j => cmdQueue[i].jobId # cmdQueue[j].jobId
    /\ \A i \in DOMAIN cmdQueue :
           /\ cmdQueue[i].jobSequence = i - 1
           /\ cmdQueue[i].jobId[2] = cmdQueue[i].jobSequence
    /\ ret.op = "AddCommand" => ret.val = <<cmdQueue[Len(cmdQueue)].jobId>>

\* Two calls made in the same instant, the second after Start, have returned
\* identifiers that differ in the sequence number alone.
C14_Witness ==
    /\ Len(cmdQueue) = 2 /\ NumStarted = 1
    /\ ret.op = "AddCommand"
    /\ cmdQueue[1].jobId[1] = cmdQueue[2].jobId[1]
    /\ cmdQueue[1].jobId[3] = cmdQueue[2].jobId[3]

\* The workers that hold a result and are at the send on workerChanOut.
Sending == {w \in DOMAIN workers : workers[w].pc = "send"}

\* C15: no channel operation blocks on capacity.  Both channels have the
\* capacity N of the queue length at Start; Start's load loop is never
\* blocked and, once in its spawn loop, Start can always take its next step
\* whatever the workers do; each channel holds at most N items; and a worker
\* at its send finds room in the Collection Channel.
C15_NoCapacityBlock ==
    /\ pcCoord # "StartBlocked"
    /\ inputClosed =>
           /\ workerChanIn.cap = NumStarted
           /\ workerChanOut.cap = NumStarted
    /\ Len(workerChanIn.buf) <= NumStarted
    /\ Len(workerChanOut.buf) <= NumStarted
    /\ pcCoord = "Start" => ENABLED (StartSpawn \/ StartReturn)
    /\ \A w \in Sending : Len(workerChanOut.buf) < workerChanOut.cap

\* Start has returned on a pool of two jobs; one result is in the Collection
\* Channel and a worker is at the send of the other.
C15_Witness ==
    /\ StartReturned /\ NumStarted = 2
    /\ Len(workerChanOut.buf) = 1
    /\ Sending # {}

\* C16: no worker sends on the Collection Channel after it is closed: the
\* process never panics on such a send, and while the channel is closed
\* every spawned worker has exited, so none runs a command or holds a
\* result it has yet to send.
C16_NoSendAfterClose ==
    /\ crashed # "send on closed channel"
    /\ workerChanOut.closed =>
           /\ Running = {} /\ Sending = {}
           /\ \A w \in DOMAIN workers : workers[w].pc = "exited"
           /\ Len(sendLog) = Len(recvLog)

\* Wait has closed the channel after two workers sent one result each.
C16_Witness ==
    /\ workerChanOut.closed /\ crashed = Nil
    /\ Len(sendLog) = 2
    /\ Len(recvLog) = 2 /\ recvLog[1].worker # recvLog[2].worker

\* C17: with zero workers and N >= 1 jobs, AddCommand and Start succeed but
\* nothing drains the queue: no worker exists, no request is received, no
\* command is run, the loaded requests stay in the Dispatch Channel, Wait
\* is not blocked at the barrier and returns nil with the result store
\* empty, and GetResults returns absent for every issued identifier.
C17_ZeroWorkers ==
    executors = 0 =>
        /\ workers = <<>> /\ waitGroup = 0
        /\ recvLog = <<>> /\ sendLog = <<>>
        /\ \A h \in DOMAIN cmdHeap : cmdHeap[h].runs = 0
        /\ StartReturned =>
               workerChanIn.buf = [k \in DOMAIN startQueue |-> JobOf(startQueue[k])]
        /\ ret.op \in {"AddCommand", "Start"} => ret.err \in {Nil, ErrStartAgain}
        /\ (ret.op = "Wait" /\ StartReturned) => ret.err = Nil
        /\ (pcCoord = "Wait" /\ crashed = Nil) => BarrierOpen /\ ENABLED WaitCollect
        /\ cmdOutput = <<>>
        /\ \A jobId \in IssuedIds : GetResults(jobId) = NoVal

\* Wait has returned nil on a pool of zero workers whose two jobs are still
\* in the Dispatch Channel.
C17_Witness ==
    /\ executors = 0 /\ NumStarted = 2
    /\ WaitDone /\ ret = [op |-> "Wait", err |-> Nil, val |-> NoVal]
    /\ Len(workerChanIn.buf) = 2
    /\ cmdOutput = <<>>

\* C18 (as claimed): after Start and Wait, the result of each job enqueued
\* before Start carries the job's sequence number.  The worker's result
\* literal sets no JobSequence, so every result carries 0.
C18_SequenceCarried ==
    WaitDone =>
        \A k \in DOMAIN startQueue :
            LET r == GetResults(startQueue[k].jobId) IN
            r # NoVal => r[1].JobSequence = startQueue[k].jobSequence

\* The identifiers of a sequence of requests or of results, in order.
RequestIds(q) == [i \in DOMAIN q |-> q[i].jobId]
ResultIds(out) == [i \in DOMAIN out |-> out[i].JobId]

\* C19: requests leave the Dispatch Channel in enqueue order (the i-th
\* receive takes the i-th enqueued request), the store lists the results in
\* the order in which the workers sent them, and with exactly one worker
\* that is the enqueue order.
C19_Orders ==
    /\ \A i \in DOMAIN recvLog :
           i \in DOMAIN startQueue /\ recvLog[i].jobId = startQueue[i].jobId
    /\ ResultIds(cmdOutput) = SubSeq(sendLog, 1, Len(cmdOutput))
    /\ WaitDone => ResultIds(cmdOutput) = sendLog
    /\ (executors = 1 /\ WaitDone) =>
           ResultIds(cmdOutput) = RequestIds(startQueue)

\* Wait has returned on a two-worker pool whose second job finished first:
\* the store lists it first.
C19_Witness ==
    /\ WaitDone /\ executors = 2 /\ NumStarted = 2
    /\ Len(cmdOutput) = 2
    /\ cmdOutput[1].JobId = startQueue[2].jobId
    /\ cmdOutput[2].JobId = startQueue[1].jobId

\* The environment the caller gave a command that runs program prog.
OwnEnv(prog) == (CHOOSE c \in CmdInputs : c.prog = prog).Env

\* The environment a dispatched command must have.
DispatchedEnv(c) == IF cmdEnv # <<>> THEN cmdEnv ELSE OwnEnv(c.prog)

\* C20: Start applies the overrides to every queued command before it
\* dispatches it.  The override list is the settings added, in the order
\* added; no command is touched before Start; from Start on every command
\* enqueued before it, and so every command a worker has received, has the
\* override list as its environment if a setting was added and its own
\* environment otherwise.
C20_EnvApplied ==
    /\ cmdEnv = SubSeq(EnvScript, 1, Len(cmdEnv))
    /\ ~inputClosed =>
           \A h \in DOMAIN cmdHeap : cmdHeap[h].Env = OwnEnv(cmdHeap[h].prog)
    /\ inputClosed =>
           \A k \in DOMAIN startQueue :
               cmdHeap[startQueue[k].command].Env =
                   DispatchedEnv(cmdHeap[startQueue[k].command])
    /\ \A w \in Running \cup Sending :
           cmdHeap[workers[w].job.command].Env =
               DispatchedEnv(cmdHeap[workers[w].job.command])

\* A worker runs a command that had an environment of its own and now
\* carries the two settings added before Start.
C20_Witness ==
    /\ cmdEnv = EnvScript
    /\ \E w \in Running :
           /\ cmdHeap[workers[w].job.command].prog = "fail"
           /\ cmdHeap[workers[w].job.command].Env = <<"A=1", "B=2">>

\* No setting was added, and a worker runs a command that keeps the
\* environment the caller gave it.
C20_OwnEnvKept ==
    /\ inputClosed /\ cmdEnv = <<>>
    /\ \E w \in Running :
           /\ cmdHeap[workers[w].job.command].prog = "fail"
           /\ cmdHeap[workers[w].job.command].Env = <<"H=0">>

====
